---- MODULE Spec2Model ----
(***************************************************************************)
(* Configuration resolution of commitizen: read_cfg, the default search     *)
(* (_find_config_from_defaults) and the per-file loader                     *)
(* (_load_config_from_file) of commitizen/config/__init__.py, over a small  *)
(* file system.  The format adapters, the settings model and the defaults   *)
(* table are not part of that file; they follow the written design          *)
(* (sections 4.1-4.3 and 6).                                                *)
(***************************************************************************)
EXTENDS Integers, Sequences, FiniteSets, TLC

VARIABLES
    git_project_root,   \* what git.find_git_project_root() returns
    fs,                 \* the files on disk
    conf,               \* outcome of the last call
    prior,              \* what the last mutating operation started from
    phase               \* "setup" while the files are laid out, then "run"

vars == <<git_project_root, fs, conf, prior, phase>>

\* ---------------------------------------------------------------- bounds
MaxFiles == 2
MaxLines == 3

\* ------------------------------------------------------------ file names
pyproject_toml == "pyproject.toml"
dot_cz_toml == ".cz.toml"
dot_cz_json == ".cz.json"
dot_cz_yaml == ".cz.yaml"
file_yaml == "file.yaml"
jsonfile_txt == "jsonfile.txt"
config_json_bak == "config.json.bak"
cfg_jsonc == "cfg.jsonc"

\* The characters of a file name.
Chars(name) ==
    CASE name = pyproject_toml -> <<"p","y","p","r","o","j","e","c","t",".","t","o","m","l">>
      [] name = dot_cz_toml -> <<".","c","z",".","t","o","m","l">>
      [] name = dot_cz_json -> <<".","c","z",".","j","s","o","n">>
      [] name = dot_cz_yaml -> <<".","c","z",".","y","a","m","l">>
      [] name = file_yaml -> <<"f","i","l","e",".","y","a","m","l">>
      [] name = jsonfile_txt -> <<"j","s","o","n","f","i","l","e",".","t","x","t">>
      [] name = config_json_bak -> <<"c","o","n","f","i","g",".","j","s","o","n",".","b","a","k">>
      [] name = cfg_jsonc -> <<"c","f","g",".","j","s","o","n","c">>

\* defaults.config_files, in priority order
config_files == <<pyproject_toml, dot_cz_toml, dot_cz_json, dot_cz_yaml>>

DefaultNames == {config_files[i] : i \in DOMAIN config_files}
CustomNames == {file_yaml, jsonfile_txt, config_json_bak, cfg_jsonc}
\* The names of the files the loader and the explicit mode are tried on.
LoadNames == CustomNames \cup {dot_cz_toml}
Names == DefaultNames \cup CustomNames

\* Directories on disk: the working directory and a directory above it.
Locations == {"cwd", "top"}
Roots == {"none", "cwd", "top"}

\* A Path object: "." is Path("."), "root" the path git reported.
MkPath(dir, name) == [dir |-> dir, name |-> name]
NoPath == [dir |-> "", name |-> ""]

\* The file a path denotes.
FileOf(root, p) == <<IF p.dir = "." THEN "cwd" ELSE root, p.name>>

\* ----------------------------------------------------------------- text
\* A file's content is the sequence of its lines.
Hdr(n) == [t |-> "table", k |-> n, v |-> ""]
KV(k, v) == [t |-> "kv", k |-> k, v |-> v]
Blank == [t |-> "blank", k |-> "", v |-> ""]
Junk == [t |-> "junk", k |-> "", v |-> ""]

ToolSection == "tool.commitizen"
OtherSection == "tool.black"
NoneValue == "None"

NoFile == [exists |-> FALSE, lines |-> <<>>]
File(lines) == [exists |-> TRUE, lines |-> lines]

Max(S) == CHOOSE x \in S : \A y \in S : y <= x
Min(S) == CHOOSE x \in S : \A y \in S : x <= y

\* --------------------------------------------------------- settings model
SchemaKeys == {"name", "version", "extras"}
DEFAULT_SETTINGS ==
    [k \in SchemaKeys |->
        CASE k = "name" -> "cz_conventional_commits"
          [] k = "version" -> NoneValue
          [] k = "extras" -> {}]

\* Merge(partial): the partial mapping's value for a schema key, else the
\* default; extras collects the entries whose keys are outside the schema.
Merge(partial) ==
    [k \in SchemaKeys |->
        IF k = "extras"
        THEN {<<x, partial[x]>> : x \in (DOMAIN partial) \ SchemaKeys}
        ELSE IF k \in DOMAIN partial THEN partial[k] ELSE DEFAULT_SETTINGS[k]]

\* -------------------------------------------------------- format adapters
\* The table a line belongs to: the last table header above it.
TableAt(lines, i) ==
    LET hs == {j \in 1..(i - 1) : lines[j].t = "table"}
    IN  IF hs = {} THEN "" ELSE lines[Max(hs)].k

\* Parse fails on text outside the grammar: a junk line, a table defined
\* twice, a key given twice in one table.
Malformed(lines) ==
    \/ \E i \in DOMAIN lines : lines[i].t = "junk"
    \/ \E i, j \in DOMAIN lines :
          /\ i < j
          /\ lines[i].t = "table" /\ lines[j].t = "table"
          /\ lines[i].k = lines[j].k
    \/ \E i, j \in DOMAIN lines :
          /\ i < j
          /\ lines[i].t = "kv" /\ lines[j].t = "kv"
          /\ lines[i].k = lines[j].k
          /\ TableAt(lines, i) = TableAt(lines, j)

\* Parse(bytes): the document, as its entries <<table, key, value>>.
Parse(lines) ==
    {<<TableAt(lines, i), lines[i].k, lines[i].v>> :
        i \in {j \in DOMAIN lines : lines[j].t = "kv"}}

\* ExtractSection(doc): the tool section's mapping, empty if it is absent.
ExtractSection(doc) ==
    LET keys == {e[2] : e \in {d \in doc : d[1] = ToolSection}}
    IN  [k \in keys |-> (CHOOSE e \in doc : e[1] = ToolSection /\ e[2] = k)[3]]

\* IsEmpty: extraction produced a literally empty mapping.
IsEmptySection(section) == DOMAIN section = {}

\* A configuration handle.
Handle(cls, path, settings, empty) ==
    [cls |-> cls, path |-> path, settings |-> settings, is_empty_config |-> empty]
NoneConf == Handle("None", NoPath, DEFAULT_SETTINGS, FALSE)
BaseConfig == Handle("BaseConfig", NoPath, DEFAULT_SETTINGS, FALSE)

\* What a call gives: the error raised ("" if none) and the file it names,
\* or the value returned.
Returned(h) == [err |-> "", err_path |-> NoPath, conf |-> h]
Raised(e, p) == [err |-> e, err_path |-> p, conf |-> NoneConf]

\* TomlConfig(data, path), JsonConfig(data, path), YAMLConfig(data, path)
Adapter(cls, data, path) ==
    IF Malformed(data)
    THEN Raised("InvalidConfigurationError: parse", path)
    ELSE LET section == ExtractSection(Parse(data))
         IN  Returned(Handle(cls, path, Merge(section), IsEmptySection(section)))

\* ----------------------------------------------------------- path.suffix
\* pathlib: the characters of the name from its last dot on, provided that dot is neither the
\* first nor the last character; else the empty string.
Suffix(name) ==
    LET dots == {i \in DOMAIN name : name[i] = "."}
    IN  IF dots = {} THEN <<>>
        ELSE LET i == Max(dots)
             IN  IF 1 < i /\ i < Len(name) THEN SubSeq(name, i, Len(name)) ELSE <<>>

\* sub in s
Contains(s, sub) ==
    \E i \in 1..(Len(s) - Len(sub) + 1) : SubSeq(s, i, i + Len(sub) - 1) = sub

\* ----------------------------------------------- _load_config_from_file
\* Variant: the suffix is compared for equality.
AdapterForExact(name) ==
    LET suffix == Suffix(Chars(name))
    IN  IF suffix = <<".","t","o","m","l">> THEN "TomlConfig"
        ELSE IF suffix = <<".","j","s","o","n">> THEN "JsonConfig"
        ELSE IF suffix = <<".","y","a","m","l">> THEN "YAMLConfig"
        ELSE "None"

AdapterFor(name) ==
    LET suffix == Suffix(Chars(name))
    IN  IF Contains(suffix, <<"t","o","m","l">>) THEN "TomlConfig"
        ELSE IF Contains(suffix, <<"j","s","o","n">>) THEN "JsonConfig"
        ELSE IF Contains(suffix, <<"y","a","m","l">>) THEN "YAMLConfig"
        ELSE "None"

\* Variant: a file of any other extension is read as TOML.
LoadConfigFromFileTomlFallback(fsys, root, path) ==
    LET f == fsys[FileOf(root, path)]
    IN  IF ~f.exists THEN Raised("FileNotFoundError", path)
        ELSE IF AdapterFor(path.name) = "None"
        THEN Adapter("TomlConfig", f.lines, path)
        ELSE Adapter(AdapterFor(path.name), f.lines, path)

LoadConfigFromFile(fsys, root, path) ==
    LET f == fsys[FileOf(root, path)]
    IN  IF ~f.exists THEN Raised("FileNotFoundError", path)
        ELSE IF AdapterFor(path.name) = "None"
        THEN Raised("InvalidConfigurationError: valid extension", NoPath)
        ELSE Adapter(AdapterFor(path.name), f.lines, path)

\* ------------------------------------------- _find_config_from_defaults
\* Variant: the git root is searched only if it is not the working directory.
CfgSearchPathsIfDifferent(root) ==
    IF root \notin {"none", "cwd"} THEN <<".", "root">> ELSE <<".">>

CfgSearchPaths(root) ==
    IF root # "none" THEN <<".", "root">> ELSE <<".">>

\* Variant: the product is taken filename-major.
CfgPathsFilenameMajor(root) ==
    LET dirs == CfgSearchPaths(root)
        d == Len(dirs)
    IN  [i \in 1..(d * Len(config_files)) |->
            MkPath(dirs[((i - 1) % d) + 1], config_files[((i - 1) \div d) + 1])]

\* path / filename for path in cfg_search_paths for filename in config_files
CfgPaths(root) ==
    LET dirs == CfgSearchPaths(root)
        n == Len(config_files)
    IN  [i \in 1..(Len(dirs) * n) |->
            MkPath(dirs[((i - 1) \div n) + 1], config_files[((i - 1) % n) + 1])]

Exists(fsys, root, path) == fsys[FileOf(root, path)].exists

\* Variant: a candidate that fails to parse is passed over too.
PassedOverMalformed(fsys, root, path) ==
    \/ ~Exists(fsys, root, path)
    \/ LET r == LoadConfigFromFile(fsys, root, path)
       IN  r.err # "" \/ r.conf.is_empty_config

\* Variant: the emptiness test is inverted.
PassedOverInverted(fsys, root, path) ==
    \/ ~Exists(fsys, root, path)
    \/ LET r == LoadConfigFromFile(fsys, root, path)
       IN  r.err = "" /\ ~r.conf.is_empty_config

\* A candidate the loop passes over: `continue`, or an empty configuration.
PassedOver(fsys, root, path) ==
    \/ ~Exists(fsys, root, path)
    \/ LET r == LoadConfigFromFile(fsys, root, path)
       IN  r.err = "" /\ r.conf.is_empty_config

\* The for loop from candidate i on; probes are the candidates whose
\* existence was tested, loads those that were read and parsed.
RECURSIVE FindLoop(_, _, _, _, _, _)
FindLoop(fsys, root, cands, i, probes, loads) ==
    IF i > Len(cands)
    THEN [out |-> Returned(NoneConf), probes |-> probes, loads |-> loads]
    ELSE LET filename == cands[i]
         IN  IF ~Exists(fsys, root, filename)
             THEN FindLoop(fsys, root, cands, i + 1, Append(probes, filename), loads)
             ELSE IF PassedOver(fsys, root, filename)
             THEN FindLoop(fsys, root, cands, i + 1,
                           Append(probes, filename), Append(loads, filename))
             ELSE [out |-> LoadConfigFromFile(fsys, root, filename),
                   probes |-> Append(probes, filename),
                   loads |-> Append(loads, filename)]

FindConfigFromDefaults(fsys, root) ==
    FindLoop(fsys, root, CfgPaths(root), 1, <<>>, <<>>)

\* ---------------------------------------------------------------- read_cfg
\* Variant: conf = _conf without the test.
OrBaseConfigDropped(out) == out

\* if _conf: conf = _conf
OrBaseConfig(out) ==
    IF out.err = "" /\ out.conf.cls = "None" THEN Returned(BaseConfig) ELSE out

\* Variant: a missing or empty explicit file falls back to the default search.
ReadCfgExplicitFallback(fsys, root, cfg_path) ==
    IF ~Exists(fsys, root, cfg_path)
    THEN OrBaseConfig(FindConfigFromDefaults(fsys, root).out)
    ELSE LET r == LoadConfigFromFile(fsys, root, cfg_path)
         IN  IF r.err = "" /\ r.conf.is_empty_config
             THEN OrBaseConfig(FindConfigFromDefaults(fsys, root).out)
             ELSE OrBaseConfig(r)

\* Variant: emptiness is inferred from the merged settings.
ReadCfgExplicitByDefaults(fsys, root, cfg_path) ==
    IF ~Exists(fsys, root, cfg_path)
    THEN Raised("InvalidConfigurationError: not exists", cfg_path)
    ELSE LET r == LoadConfigFromFile(fsys, root, cfg_path)
         IN  IF r.err = "" /\ r.conf.settings = DEFAULT_SETTINGS
             THEN Raised("InvalidConfigurationError: doesn't contain any configuration",
                         cfg_path)
             ELSE OrBaseConfig(r)

\* read_cfg(cfg_path)
ReadCfgExplicit(fsys, root, cfg_path) ==
    IF ~Exists(fsys, root, cfg_path)
    THEN Raised("InvalidConfigurationError: not exists", cfg_path)
    ELSE LET r == LoadConfigFromFile(fsys, root, cfg_path)
         IN  IF r.err = "" /\ r.conf.is_empty_config
             THEN Raised("InvalidConfigurationError: doesn't contain any configuration",
                         cfg_path)
             ELSE OrBaseConfig(r)

\* read_cfg()
ReadCfgDefaults(fsys, root) ==
    LET r == FindConfigFromDefaults(fsys, root)
    IN  [r EXCEPT !.out = OrBaseConfig(r.out)]

\* ------------------------------------------------------ the state machine
NoCall == [call |-> "", arg |-> NoPath, out |-> Returned(NoneConf),
           probes |-> <<>>, loads |-> <<>>]
NoPrior == [op |-> "", path |-> NoPath, key |-> "", value |-> "",
            settings |-> DEFAULT_SETTINGS, before |-> NoFile]

SearchFiles == Locations \X DefaultNames
LoadFiles == {"cwd"} \X LoadNames
AllFiles == Locations \X Names

NFiles == Cardinality({f \in AllFiles : fs[f].exists})

\* Sample documents
EmptyDoc == <<>>
NoSectionDoc == <<Hdr(OtherSection), KV("line-length", "88")>>
HeaderOnlyDoc == <<Hdr(ToolSection)>>
PopulatedDoc == <<Hdr(ToolSection), KV("name", "cz_jira"), KV("jira_prefix", "X"),
                  Hdr(OtherSection), KV("line-length", "88")>>
AllDefaultsDoc == <<Hdr(ToolSection), KV("name", "cz_conventional_commits"),
                    KV("version", NoneValue)>>
MalformedDoc == <<Junk>>
Samples == {EmptyDoc, NoSectionDoc, HeaderOnlyDoc, PopulatedDoc, AllDefaultsDoc,
            MalformedDoc}
\* For the search only the kind of a document matters: without settings,
\* with settings, malformed.
SearchSamples == {EmptyDoc, HeaderOnlyDoc, PopulatedDoc, MalformedDoc}

Init ==
    /\ git_project_root \in Roots
    /\ fs = [f \in AllFiles |-> NoFile]
    /\ conf = NoCall
    /\ prior = NoPrior
    /\ phase = "setup"

\* The environment lays out a file before the program runs.
WriteFile(f, lines) ==
    /\ phase = "setup"
    /\ ~fs[f].exists
    /\ NFiles < MaxFiles
    /\ fs' = [fs EXCEPT ![f] = File(lines)]
    /\ UNCHANGED <<git_project_root, conf, prior, phase>>

ReadCfg ==
    /\ LET r == ReadCfgDefaults(fs, git_project_root)
       IN  conf' = [call |-> "read_cfg", arg |-> NoPath, out |-> r.out,
                    probes |-> r.probes, loads |-> r.loads]
    /\ phase' = "run"
    /\ UNCHANGED <<git_project_root, fs, prior>>

ReadCfgPath(name) ==
    /\ LET p == MkPath(".", name)
       IN  conf' = [call |-> "read_cfg", arg |-> p,
                    out |-> ReadCfgExplicit(fs, git_project_root, p),
                    probes |-> <<p>>, loads |-> <<>>]
    /\ phase' = "run"
    /\ UNCHANGED <<git_project_root, fs, prior>>

LoadFile(name) ==
    /\ LET p == MkPath(".", name)
       IN  conf' = [call |-> "_load_config_from_file", arg |-> p,
                    out |-> LoadConfigFromFile(fs, git_project_root, p),
                    probes |-> <<>>, loads |-> <<p>>]
    /\ phase' = "run"
    /\ UNCHANGED <<git_project_root, fs, prior>>

\* ---------------------------------------------------------------- set_key
\* The adapter's SetKey on the on-disk text: the entry of `key` in the tool
\* section is patched in place, or added at the end of that section; every
\* other line is kept.
SetKeyLines(lines, key, value) ==
    LET at == {i \in DOMAIN lines :
                  /\ lines[i].t = "kv" /\ lines[i].k = key
                  /\ TableAt(lines, i) = ToolSection}
        sec == {i \in DOMAIN lines :
                  \/ lines[i].t = "table" /\ lines[i].k = ToolSection
                  \/ lines[i].t = "kv" /\ TableAt(lines, i) = ToolSection}
    IN  IF at # {} THEN [lines EXCEPT ![Min(at)].v = value]
        ELSE IF sec = {} THEN lines \o <<Hdr(ToolSection), KV(key, value)>>
        ELSE SubSeq(lines, 1, Max(sec)) \o <<KV(key, value)>>
               \o SubSeq(lines, Max(sec) + 1, Len(lines))

SetKeys == SchemaKeys \ {"extras"}
Values == {"2.0.0"}

\* conf.set_key(key, value) on the handle read_cfg() has just returned; a run
\* updates one key.
SetKey(key, value) ==
    /\ conf.call = "read_cfg" /\ conf.arg = NoPath /\ conf.out.err = ""
    /\ prior = NoPrior
    /\ LET h == conf.out.conf
           f == FileOf(git_project_root, h.path)
       IN  IF h.path = NoPath
           THEN /\ conf' = [conf EXCEPT !.call = "set_key",
                                        !.out = Raised("ConfigurationError", NoPath)]
                /\ UNCHANGED <<fs, prior>>
           ELSE /\ fs' = [fs EXCEPT ![f] = File(SetKeyLines(fs[f].lines, key, value))]
                /\ conf' = [conf EXCEPT !.call = "set_key",
                                        !.out.conf.settings[key] = value]
                /\ prior' = [op |-> "set_key", path |-> h.path, key |-> key,
                             value |-> value, settings |-> h.settings,
                             before |-> NoFile]
    /\ UNCHANGED <<git_project_root, phase>>

\* ------------------------------------------- init_empty_config_content
\* Variant: only the stub is written.
InitEmptyContentOverwrite(existing) == <<Hdr(ToolSection)>>

\* The structured-document adapter: the section header is appended after
\* the existing content, with one blank line between them if that content
\* is non-empty and does not already end with the header.
InitEmptyContent(existing) ==
    IF existing # <<>> /\ existing[Len(existing)] # Hdr(ToolSection)
    THEN existing \o <<Blank, Hdr(ToolSection)>>
    ELSE existing \o <<Hdr(ToolSection)>>

InitEmptyConfigContent(name) ==
    /\ phase = "run"
    /\ LET f == <<"cwd", name>>
           existing == IF fs[f].exists THEN fs[f].lines ELSE <<>>
       IN  /\ Len(existing) <= MaxLines + 1
           /\ fs' = [fs EXCEPT ![f] = File(InitEmptyContent(existing))]
           /\ prior' = [NoPrior EXCEPT !.op = "init_empty_config_content",
                                       !.path = MkPath(".", name),
                                       !.before = fs[f]]
           /\ conf' = [NoCall EXCEPT !.call = "init_empty_config_content",
                                     !.arg = MkPath(".", name)]
    /\ UNCHANGED <<git_project_root, phase>>

\* ------------------------------------------------------- specifications
Next ==
    \/ \E f \in SearchFiles, c \in SearchSamples : WriteFile(f, c)
    \/ ReadCfg
    \/ \E k \in SetKeys, v \in Values : SetKey(k, v)

Spec == Init /\ [][Next]_vars

\* The loader and the explicit mode on arbitrarily named files.
NextLoad ==
    \/ \E f \in LoadFiles, c \in Samples : WriteFile(f, c)
    \/ ReadCfg
    \/ \E n \in LoadNames : ReadCfgPath(n)
    \/ \E n \in LoadNames : LoadFile(n)

InitLoad == Init /\ git_project_root \in {"none", "cwd"}

SpecLoad == InitLoad /\ [][NextLoad]_vars

\* init_empty_config_content on one file holding any short text.
TomlLines == {Hdr(ToolSection), Hdr(OtherSection), KV("line-length", "88"), Blank}
Texts == UNION {[1..n -> TomlLines] : n \in 0..MaxLines}

InitToml ==
    /\ git_project_root = "none"
    /\ \E c \in {NoFile} \cup {File(t) : t \in Texts} :
          fs = [f \in AllFiles |-> IF f = <<"cwd", dot_cz_toml>> THEN c ELSE NoFile]
    /\ conf = NoCall
    /\ prior = NoPrior
    /\ phase = "run"

NextToml == InitEmptyConfigContent(dot_cz_toml)

SpecToml == InitToml /\ [][NextToml]_vars

\* ====================================================== the claims' terms
DefaultCall == conf.call = "read_cfg" /\ conf.arg = NoPath
ExplicitCall == conf.call = "read_cfg" /\ conf.arg # NoPath
LoaderCall == conf.call = "_load_config_from_file"

ContentOf(p) == fs[FileOf(git_project_root, p)]

\* The candidates as the design orders them: <cwd>/<filename> for every
\* default filename in list order, then <git root>/<filename> likewise.
InDir(dir) == [i \in DOMAIN config_files |-> MkPath(dir, config_files[i])]
SearchOrder ==
    InDir(".") \o (IF git_project_root = "none" THEN <<>> ELSE InDir("root"))

\* The text gives the tool section at least one setting.
HasSettings(lines) ==
    \E i \in DOMAIN lines : lines[i].t = "kv" /\ TableAt(lines, i) = ToolSection

\* An existing candidate with an empty tool section.
EmptyCandidate(p) ==
    /\ ContentOf(p).exists
    /\ ~Malformed(ContentOf(p).lines)
    /\ ~HasSettings(ContentOf(p).lines)

\* An existing candidate with a non-empty tool section.
NonEmptyCandidate(p) ==
    /\ ContentOf(p).exists
    /\ ~Malformed(ContentOf(p).lines)
    /\ HasSettings(ContentOf(p).lines)

MalformedCandidate(p) == ContentOf(p).exists /\ Malformed(ContentOf(p).lines)

SettingsOf(p) == Merge(ExtractSection(Parse(ContentOf(p).lines)))

NoRepeat(seq) ==
    \A i, j \in DOMAIN seq :
        i < j => FileOf(git_project_root, seq[i]) # FileOf(git_project_root, seq[j])

\* --------------------------------------------------------------------- C1
\* C1: read_cfg() returns the handle loaded from the first candidate, in the
\* order cwd x filenames then git root x filenames, that exists and has a
\* non-empty tool section; missing and empty candidates before it are
\* skipped, and a later non-empty candidate never wins.
C1_FirstNonEmptyCandidateWins ==
    DefaultCall =>
        LET ne == {i \in DOMAIN SearchOrder : NonEmptyCandidate(SearchOrder[i])}
            bad == {i \in DOMAIN SearchOrder : MalformedCandidate(SearchOrder[i])}
        IN  /\ (conf.out.err = "" /\ ne # {}) =>
                  /\ conf.out.conf.path = SearchOrder[Min(ne)]
                  /\ conf.out.conf.settings = SettingsOf(SearchOrder[Min(ne)])
            /\ (ne # {} /\ \A j \in bad : j > Min(ne)) => conf.out.err = ""
            /\ (conf.out.err = "" /\ conf.out.conf.path # NoPath) => ne # {}

\* An empty pyproject.toml before a populated .cz.toml: .cz.toml is returned.
C1_Witness ==
    /\ DefaultCall
    /\ EmptyCandidate(MkPath(".", pyproject_toml))
    /\ NonEmptyCandidate(MkPath(".", dot_cz_toml))
    /\ conf.out.err = ""
    /\ conf.out.conf.path = MkPath(".", dot_cz_toml)

\* --------------------------------------------------------------------- C2
\* C2: when no candidate exists, or every existing candidate has an empty
\* tool section, read_cfg() returns without error a handle with no path
\* whose settings are exactly the defaults table.
C2_DefaultsWhenNothingFound ==
    (/\ DefaultCall
     /\ \A i \in DOMAIN SearchOrder :
            ~ContentOf(SearchOrder[i]).exists \/ EmptyCandidate(SearchOrder[i]))
    => /\ conf.out.err = ""
       /\ conf.out.conf.cls = "BaseConfig"
       /\ conf.out.conf.path = NoPath
       /\ conf.out.conf.settings = DEFAULT_SETTINGS

C2_Witness ==
    /\ DefaultCall
    /\ \E i \in DOMAIN SearchOrder : EmptyCandidate(SearchOrder[i])
    /\ \A i \in DOMAIN SearchOrder :
            ~ContentOf(SearchOrder[i]).exists \/ EmptyCandidate(SearchOrder[i])
    /\ conf.out.conf.cls = "BaseConfig"
    /\ conf.out.conf.settings = DEFAULT_SETTINGS

\* --------------------------------------------------------------------- C8
\* C8: in the default search a malformed candidate is not skipped: if the
\* first existing candidate that is not skipped as empty is malformed,
\* read_cfg() raises InvalidConfigurationError naming that file and examines
\* no later candidate; if it is well formed it is returned and no file after
\* it is read, malformed or not.
C8_ParseFailureStopsSearch ==
    DefaultCall =>
        LET stop == {i \in DOMAIN SearchOrder :
                        /\ ContentOf(SearchOrder[i]).exists
                        /\ ~EmptyCandidate(SearchOrder[i])}
        IN  stop # {} =>
              LET j == Min(stop)
              IN  /\ conf.probes = SubSeq(SearchOrder, 1, j)
                  /\ conf.loads # <<>> /\ conf.loads[Len(conf.loads)] = SearchOrder[j]
                  /\ MalformedCandidate(SearchOrder[j]) =>
                        /\ conf.out.err = "InvalidConfigurationError: parse"
                        /\ conf.out.err_path = SearchOrder[j]
                        /\ conf.out.conf.cls = "None"
                  /\ ~MalformedCandidate(SearchOrder[j]) =>
                        /\ conf.out.err = ""
                        /\ conf.out.conf.path = SearchOrder[j]

\* A malformed candidate before a populated one: the call fails.
C8_Witness ==
    /\ DefaultCall
    /\ conf.out.err = "InvalidConfigurationError: parse"
    /\ \E i, j \in DOMAIN SearchOrder :
          /\ i < j
          /\ conf.out.err_path = SearchOrder[i]
          /\ NonEmptyCandidate(SearchOrder[j])

\* --------------------------------------------------------------------- C9
\* C9 as stated: the git root joins the directory list only if it exists and
\* differs from the working directory, so that with no git root, or with the
\* working directory as git root, only one directory is searched and no file
\* is probed twice.
C9_RootOnlyIfDifferent ==
    (DefaultCall /\ git_project_root \in {"none", "cwd"}) =>
        /\ \A i \in DOMAIN conf.probes : conf.probes[i].dir = "."
        /\ NoRepeat(conf.probes)
        /\ NoRepeat(conf.loads)

\* C9 amended: the directory list is the working directory, then the git root
\* whenever there is one, also when it is the working directory. Only with
\* no git root is one directory searched and no file probed twice; with the
\* working directory as git root a search that selects nothing in the first
\* pass probes every candidate a second time and parses every existing empty
\* one twice.
C9_RootWheneverPresent ==
    DefaultCall =>
        /\ conf.probes = SubSeq(SearchOrder, 1, Len(conf.probes))
        /\ git_project_root = "none" =>
              /\ \A i \in DOMAIN conf.probes : conf.probes[i].dir = "."
              /\ NoRepeat(conf.probes)
              /\ NoRepeat(conf.loads)
        /\ (/\ git_project_root # "none"
            /\ \A i \in DOMAIN InDir(".") :
                   ~ContentOf(InDir(".")[i]).exists \/ EmptyCandidate(InDir(".")[i]))
           => /\ Len(conf.probes) > Len(config_files)
              /\ conf.probes[Len(config_files) + 1] = MkPath("root", config_files[1])
        /\ (git_project_root = "cwd" /\ conf.out.err = "" /\ conf.out.conf.path = NoPath)
           => /\ Len(conf.probes) = 2 * Len(config_files)
              /\ \A i \in DOMAIN InDir(".") :
                    EmptyCandidate(InDir(".")[i]) =>
                       Cardinality({k \in DOMAIN conf.loads :
                                       conf.loads[k].name = config_files[i]}) = 2

\* The working directory is the git root and holds an empty config file: it
\* is probed and parsed twice.
C9_Witness ==
    /\ DefaultCall
    /\ git_project_root = "cwd"
    /\ Len(conf.probes) = 2 * Len(config_files)
    /\ Len(conf.loads) = 2
    /\ ~NoRepeat(conf.loads)

\* --------------------------------------------------------------------- C5
\* C5: after read_cfg(), set_key(k, v) on the returned handle and a fresh
\* read_cfg(), the search selects the same file and the settings are those
\* of the first resolution except that k has value v.
C5_SetKeyRoundTrip ==
    (DefaultCall /\ prior.op = "set_key") =>
        /\ conf.out.err = ""
        /\ conf.out.conf.path = prior.path
        /\ conf.out.conf.settings = [prior.settings EXCEPT ![prior.key] = prior.value]

C5_Witness ==
    /\ DefaultCall
    /\ prior.op = "set_key"
    /\ prior.key = "version"
    /\ conf.out.conf.settings # prior.settings
    /\ conf.out.conf.settings["version"] = "2.0.0"
    /\ conf.out.conf.settings["name"] = "cz_jira"

\* --------------------------------------------------------------------- C3
\* C3: read_cfg(path) never falls back: a missing path raises "File {path}
\* not exists", an existing path whose tool section is empty raises "doesn't
\* contain any configuration"; a handle is returned only for an existing
\* path with a non-empty section and is the one loaded from that path.
C3_ExplicitPathNeverFallsBack ==
    ExplicitCall =>
        /\ conf.probes = <<conf.arg>>
        /\ ~ContentOf(conf.arg).exists =>
              /\ conf.out.err = "InvalidConfigurationError: not exists"
              /\ conf.out.err_path = conf.arg
        /\ (EmptyCandidate(conf.arg) /\ AdapterFor(conf.arg.name) # "None") =>
              /\ conf.out.err =
                    "InvalidConfigurationError: doesn't contain any configuration"
              /\ conf.out.err_path = conf.arg
        /\ conf.out.err = "" =>
              /\ NonEmptyCandidate(conf.arg)
              /\ conf.out.conf.cls \notin {"None", "BaseConfig"}
              /\ conf.out.conf.path = conf.arg
              /\ conf.out.conf.settings = SettingsOf(conf.arg)
        /\ conf.out.err # "" => conf.out.conf.cls = "None"

\* The explicit file is missing while a populated .cz.toml sits in the
\* working directory: the call fails.
C3_Witness ==
    /\ ExplicitCall
    /\ conf.arg = MkPath(".", file_yaml)
    /\ ~ContentOf(conf.arg).exists
    /\ NonEmptyCandidate(MkPath(".", dot_cz_toml))
    /\ conf.out.err = "InvalidConfigurationError: not exists"

SetsEveryDefault(lines) ==
    /\ ~Malformed(lines)
    /\ \A k \in SchemaKeys \ {"extras"} :
          \E i \in DOMAIN lines :
             /\ lines[i] = KV(k, DEFAULT_SETTINGS[k])
             /\ TableAt(lines, i) = ToolSection

\* C6: a file whose tool section explicitly sets every value to its default
\* is not empty: the default search selects it, so that the handle carries
\* its path, and read_cfg(path) returns it without the "doesn't contain any
\* configuration" error.
C6_AllDefaultsIsNotEmpty ==
    /\ (/\ ExplicitCall
        /\ ContentOf(conf.arg).exists
        /\ AdapterFor(conf.arg.name) # "None"
        /\ SetsEveryDefault(ContentOf(conf.arg).lines))
       => /\ conf.out.err = ""
          /\ conf.out.conf.path = conf.arg
          /\ ~conf.out.conf.is_empty_config
          /\ conf.out.conf.settings = DEFAULT_SETTINGS
    /\ DefaultCall =>
          \A i \in DOMAIN SearchOrder :
             (/\ ContentOf(SearchOrder[i]).exists
              /\ SetsEveryDefault(ContentOf(SearchOrder[i]).lines)
              /\ \A j \in 1..(i - 1) :
                    \/ ~ContentOf(SearchOrder[j]).exists
                    \/ EmptyCandidate(SearchOrder[j]))
             => /\ conf.out.err = ""
                /\ conf.out.conf.path = SearchOrder[i]
                /\ conf.out.conf.cls # "BaseConfig"
                /\ conf.out.conf.settings = DEFAULT_SETTINGS

C6_Witness ==
    /\ ExplicitCall
    /\ ContentOf(conf.arg) = File(AllDefaultsDoc)
    /\ conf.out.err = ""
    /\ conf.out.conf.path = conf.arg
    /\ conf.out.conf.settings = DEFAULT_SETTINGS

\* -------------------------------------------------------------------- C10
\* C10 as stated: the adapter is chosen by substring match on the suffix, so
\* that jsonfile.txt matches no adapter while config.json.bak matches "json"
\* and is loaded with the JSON adapter.
C10_JsonBakLoadsAsJson ==
    (LoaderCall /\ ContentOf(conf.arg).exists) =>
        /\ conf.arg.name = jsonfile_txt =>
              conf.out.err = "InvalidConfigurationError: valid extension"
        /\ (conf.arg.name = config_json_bak /\ ~Malformed(ContentOf(conf.arg).lines)) =>
              /\ conf.out.err = ""
              /\ conf.out.conf.cls = "JsonConfig"

\* C10 amended: the substring match is against the path's last suffix only:
\* jsonfile.txt (suffix .txt) and config.json.bak (suffix .bak) both match no
\* adapter and raise the "valid extension" error, while cfg.jsonc (suffix
\* .jsonc) matches "json" and is loaded with the JSON adapter.
C10_SubstringOfLastSuffix ==
    (LoaderCall /\ ContentOf(conf.arg).exists) =>
        /\ conf.arg.name \in {jsonfile_txt, config_json_bak} =>
              /\ conf.out.err = "InvalidConfigurationError: valid extension"
              /\ conf.out.conf.cls = "None"
        /\ (conf.arg.name = cfg_jsonc /\ ~Malformed(ContentOf(conf.arg).lines)) =>
              /\ conf.out.err = ""
              /\ conf.out.conf.cls = "JsonConfig"
              /\ conf.out.conf.path = conf.arg

C10_Witness ==
    /\ LoaderCall
    /\ conf.arg = MkPath(".", cfg_jsonc)
    /\ ContentOf(conf.arg) = File(PopulatedDoc)
    /\ conf.out.conf.cls = "JsonConfig"

\* --------------------------------------------------------------------- C7
InitDone == prior.op = "init_empty_config_content"
OldText == IF prior.before.exists THEN prior.before.lines ELSE <<>>
NewText == ContentOf(prior.path).lines

\* C7 as stated: the new content is the original content, then one blank line
\* whenever the original content was non-empty, then the section header.
C7_BlankLineWheneverNonEmpty ==
    InitDone =>
        NewText = OldText \o (IF OldText # <<>> THEN <<Blank>> ELSE <<>>)
                          \o <<Hdr(ToolSection)>>

\* C7 amended: the new content keeps the original content as a prefix and
\* ends with the section header; exactly one blank line separates them when
\* the original content was non-empty and did not already end with the
\* section header, and none when it did; on a missing or empty file the
\* result is exactly the header.
C7_BlankLineUnlessHeaderLast ==
    InitDone =>
        LET n == Len(OldText)
            sep == OldText # <<>> /\ OldText[n] # Hdr(ToolSection)
        IN  /\ ContentOf(prior.path).exists
            /\ SubSeq(NewText, 1, n) = OldText
            /\ NewText[Len(NewText)] = Hdr(ToolSection)
            /\ Len(NewText) = n + (IF sep THEN 2 ELSE 1)
            /\ sep => NewText[n + 1] = Blank
            /\ OldText = <<>> => NewText = <<Hdr(ToolSection)>>

\* Unrelated content: one blank line, then the header.
C7_Witness ==
    /\ InitDone
    /\ OldText = NoSectionDoc
    /\ NewText = NoSectionDoc \o <<Blank, Hdr(ToolSection)>>
====
